---------------------------- MODULE Spec2Model ----------------------------
(* Model of pico-sniff-bus/src/main.cc: a bus sniffer that relays the bytes  *)
(* received on Serial1 as hexadecimal frames on Serial (USB CDC) and keeps   *)
(* the USB link alive with a periodic carriage return.                       *)
(*                                                                           *)
(* The sketch runs on one core.  The Arduino main loop calls loop(), and     *)
(* after loop() returns it calls the serialEvent1() hook when                *)
(* Serial1.available() is non-zero; the UART receive interrupt fills the     *)
(* Serial1 buffer at any time.  Characters are modelled by their ASCII code. *)
EXTENDS Integers, Sequences, FiniteSets, TLC

VARIABLES
    rxfifo,     \* Serial1 receive buffer: bytes received and not yet read
    sink,       \* every character written to Serial so far
    led,        \* static bool led of loop()
    pin,        \* level last written to LED_BUILTIN
    pc,         \* position of the single thread of control
    now,        \* milliseconds elapsed since the last heartbeat was written
    \* ---- history variables (observation only) ----
    arrived,    \* every byte the bus delivered, in arrival order
    frames,     \* byte lists read by the completed serialEvent1 invocations
    cur,        \* results of Serial1.read() in the running/last invocation
    snap,       \* content of rxfifo when the running/last invocation started
    start,      \* Len(sink) when the running/last invocation started
    stop,       \* Len(sink) when the last completed invocation returned
    late,       \* TRUE iff a byte arrived while that invocation was running
    calls,      \* number of serialEvent1 invocations started
    ticks,      \* number of completed loop() calls
    busy,       \* milliseconds spent in serialEvent1 since the last heartbeat
    lastGap,    \* milliseconds between the last two heartbeats
    lastBusy    \* value of busy when the last heartbeat was written

vars == <<rxfifo, sink, led, pin, pc, now, arrived, frames, cur, snap, start,
          stop, late, calls, ticks, busy, lastGap, lastBusy>>

hist == <<arrived, frames, cur, snap, start, stop, late, calls, ticks, busy,
          lastGap, lastBusy>>

-----------------------------------------------------------------------------
(* Bounds of the model *)

MaxArrivals == 3    \* bytes the bus delivers in one behaviour
MaxTicks == 3       \* loop() calls in one behaviour
MaxHandlerMs == 1   \* longest time one serialEvent1 invocation takes
MaxFifo == 2        \* capacity of the Serial1 buffer in the unbounded runs

\* byte values the bus delivers in the interleaving model
SampleBytes == {0, 18, 171}

\* every byte value; used where the handler is called on a prepared buffer
AllBytes == 0 .. 255

-----------------------------------------------------------------------------
(* Program text *)

\* delay(500)
Quantum == 500

\* Serial.print("rx")
StartMarker == <<114, 120>>

\* the "h" of Serial.println("h")
EndMarker == <<104>>

\* what println appends after its argument: "\r\n"
LineTerminator == <<13, 10>>

\* Serial.print("\r")
Heartbeat == <<13>>

\* defect: %x instead of %X, the digits above 9 in lower case
HexDigit_lower(d) == IF d < 10 THEN 48 + d ELSE 87 + d

\* one hexadecimal digit of %X: '0'..'9', 'A'..'F'
HexDigit(d) == IF d < 10 THEN 48 + d ELSE 55 + d

RECURSIVE HexDigits(_)
\* the digits %X prints for an unsigned value below 65536, no leading zeros
HexDigits(u) ==
    IF u < 16 THEN <<HexDigit(u)>>
    ELSE Append(HexDigits(u \div 16), HexDigit(u % 16))

\* left-pad a digit string with '0' up to width w
ZeroPad(ds, w) ==
    [i \in 1 .. (w - Len(ds)) |-> 48] \o ds

\* defect: %X instead of %02X, no zero padding
Fmt02X_nopad(n) == HexDigits(n % 65536)

\* %02X applied to an int: the argument is converted to a 32-bit unsigned
\* value (two 16-bit halves here), printed in upper-case hexadecimal with a
\* minimum width of two, zero padded, never truncated
Fmt02X(n) ==
    LET hi == (n \div 65536) % 65536
        lo == n % 65536
        ds == IF hi = 0 THEN HexDigits(lo)
              ELSE HexDigits(hi) \o ZeroPad(HexDigits(lo), 4)
    IN  IF Len(ds) < 2 THEN ZeroPad(ds, 2) ELSE ds

\* defect: "%02X" instead of " %02X", no separating space
DataToken_nospace(n) == Fmt02X(n)

\* Serial.printf(" %02X", n)
DataToken(n) == <<32>> \o Fmt02X(n)

\* Serial1.available()
Available == Len(rxfifo)

\* value returned by Serial1.read(): the oldest byte, or -1 when there is none
ReadValue(buf) == IF Len(buf) > 0 THEN Head(buf) ELSE -1

\* defect: Serial1.peek() instead of Serial1.read(), the byte is not removed
ReadRest_peek(buf) == buf

\* the buffer after Serial1.read()
ReadRest(buf) == IF Len(buf) > 0 THEN Tail(buf) ELSE buf

InHandler == pc \in {"while", "body", "end"}

-----------------------------------------------------------------------------
(* Initial states *)

InitCommon ==
    /\ sink = <<>>
    /\ led = FALSE
    /\ pin = FALSE
    /\ now = 0
    /\ frames = <<>>
    /\ cur = <<>>
    /\ snap = <<>>
    /\ start = 0
    /\ stop = 0
    /\ late = FALSE
    /\ calls = 0
    /\ ticks = 0
    /\ busy = 0
    /\ lastGap = 0
    /\ lastBusy = 0

\* after setup(): nothing received, nothing written, about to call loop()
Init ==
    /\ InitCommon
    /\ rxfifo = <<>>
    /\ arrived = <<>>
    /\ pc = "loop"

-----------------------------------------------------------------------------
(* The bus *)

\* the UART receives one byte; the interrupt appends it to the Serial1 buffer
Arrive ==
    /\ Len(arrived) < MaxArrivals
    /\ \E b \in SampleBytes :
          /\ rxfifo' = Append(rxfifo, b)
          /\ arrived' = Append(arrived, b)
    /\ late' = (late \/ InHandler)
    /\ UNCHANGED <<sink, led, pin, pc, now, frames, cur, snap, start, stop,
                   calls, ticks, busy, lastGap, lastBusy>>

-----------------------------------------------------------------------------
(* loop() *)

\* defect: digitalWrite(LED_BUILTIN, !led), the inverted value is not stored
loop_toggle_noStore ==
    /\ pc = "loop"
    /\ ticks < MaxTicks
    /\ led' = led
    /\ pin' = ~led
    /\ pc' = "delay"
    /\ UNCHANGED <<rxfifo, sink, now, hist>>

\* static bool led = false; digitalWrite(LED_BUILTIN, led = !led);
loop_toggle ==
    /\ pc = "loop"
    /\ ticks < MaxTicks
    /\ led' = ~led
    /\ pin' = ~led
    /\ pc' = "delay"
    /\ UNCHANGED <<rxfifo, sink, now, hist>>

\* defect: the delay is left out
loop_delay_none ==
    /\ pc = "delay"
    /\ now' = now
    /\ pc' = "print"
    /\ UNCHANGED <<rxfifo, sink, led, pin, hist>>

\* delay(500);
loop_delay ==
    /\ pc = "delay"
    /\ now' = now + Quantum
    /\ pc' = "print"
    /\ UNCHANGED <<rxfifo, sink, led, pin, hist>>

\* defect: Serial.println("\r") instead of Serial.print("\r")
loop_print_println ==
    /\ pc = "print"
    /\ sink' = sink \o Heartbeat \o LineTerminator
    /\ lastGap' = now
    /\ lastBusy' = busy
    /\ now' = 0
    /\ busy' = 0
    /\ ticks' = ticks + 1
    /\ pc' = "event"
    /\ UNCHANGED <<rxfifo, led, pin, arrived, frames, cur, snap, start, stop,
                   late, calls>>

\* defect: the heartbeat is written only when the bus is idle
loop_print_ifIdle ==
    /\ pc = "print"
    /\ sink' = IF Available = 0 THEN sink \o Heartbeat ELSE sink
    /\ lastGap' = now
    /\ lastBusy' = busy
    /\ now' = 0
    /\ busy' = 0
    /\ ticks' = ticks + 1
    /\ pc' = "event"
    /\ UNCHANGED <<rxfifo, led, pin, arrived, frames, cur, snap, start, stop,
                   late, calls>>

\* Serial.print("\r"); and loop() returns
loop_print ==
    /\ pc = "print"
    /\ sink' = sink \o Heartbeat
    /\ lastGap' = now
    /\ lastBusy' = busy
    /\ now' = 0
    /\ busy' = 0
    /\ ticks' = ticks + 1
    /\ pc' = "event"
    /\ UNCHANGED <<rxfifo, led, pin, arrived, frames, cur, snap, start, stop,
                   late, calls>>

-----------------------------------------------------------------------------
(* serialEvent1() *)

\* entry of serialEvent1: Serial.print("rx");
serialEvent1_enter ==
    /\ sink' = sink \o StartMarker
    /\ pc' = "while"
    /\ snap' = rxfifo
    /\ start' = Len(sink)
    /\ cur' = <<>>
    /\ late' = FALSE
    /\ calls' = calls + 1
    /\ UNCHANGED <<rxfifo, led, pin, now, arrived, frames, stop, ticks, busy,
                   lastGap, lastBusy>>

\* the main loop after loop() returned: serialEvent1 is called when Serial1
\* has data available
serialEvent1_run ==
    /\ pc = "event"
    /\ Available > 0
    /\ serialEvent1_enter

\* the main loop after loop() returned with nothing available: loop() again
serialEvent1_skip ==
    /\ pc = "event"
    /\ Available = 0
    /\ pc' = "loop"
    /\ UNCHANGED <<rxfifo, sink, led, pin, now, hist>>

\* defect: if instead of while, at most one byte is read per invocation
serialEvent1_while_once ==
    /\ pc = "while"
    /\ pc' = IF Available > 0 /\ cur = <<>> THEN "body" ELSE "end"
    /\ UNCHANGED <<rxfifo, sink, led, pin, now, hist>>

\* defect: do ... while, the first read is not guarded by available()
serialEvent1_while_doWhile ==
    /\ pc = "while"
    /\ pc' = IF Available > 0 \/ cur = <<>> THEN "body" ELSE "end"
    /\ UNCHANGED <<rxfifo, sink, led, pin, now, hist>>

\* defect: available() >= 0 instead of available() > 0
serialEvent1_while_geq ==
    /\ pc = "while"
    /\ pc' = IF Available >= 0 THEN "body" ELSE "end"
    /\ UNCHANGED <<rxfifo, sink, led, pin, now, hist>>

\* defect: available() > 1 instead of available() > 0
serialEvent1_while_gt1 ==
    /\ pc = "while"
    /\ pc' = IF Available > 1 THEN "body" ELSE "end"
    /\ UNCHANGED <<rxfifo, sink, led, pin, now, hist>>

\* while (Serial1.available() > 0)
serialEvent1_while ==
    /\ pc = "while"
    /\ pc' = IF Available > 0 THEN "body" ELSE "end"
    /\ UNCHANGED <<rxfifo, sink, led, pin, now, hist>>

\* defect: the start marker is written inside the drain loop
serialEvent1_body_marker ==
    /\ pc = "body"
    /\ sink' = sink \o StartMarker \o DataToken(ReadValue(rxfifo))
    /\ cur' = Append(cur, ReadValue(rxfifo))
    /\ rxfifo' = ReadRest(rxfifo)
    /\ pc' = "while"
    /\ UNCHANGED <<led, pin, now, arrived, frames, snap, start, stop, late,
                   calls, ticks, busy, lastGap, lastBusy>>

\* Serial.printf(" %02X", Serial1.read());
serialEvent1_body ==
    /\ pc = "body"
    /\ sink' = sink \o DataToken(ReadValue(rxfifo))
    /\ cur' = Append(cur, ReadValue(rxfifo))
    /\ rxfifo' = ReadRest(rxfifo)
    /\ pc' = "while"
    /\ UNCHANGED <<led, pin, now, arrived, frames, snap, start, stop, late,
                   calls, ticks, busy, lastGap, lastBusy>>

\* defect: Serial.println() without the end marker
serialEvent1_end_noMarker ==
    /\ pc = "end"
    /\ \E d \in 0 .. MaxHandlerMs :
          /\ now' = now + d
          /\ busy' = busy + d
    /\ sink' = sink \o LineTerminator
    /\ stop' = Len(sink) + Len(LineTerminator)
    /\ frames' = Append(frames, cur)
    /\ pc' = "loop"
    /\ UNCHANGED <<rxfifo, led, pin, arrived, cur, snap, start, late, calls,
                   ticks, lastGap, lastBusy>>

\* defect: Serial.print("h") instead of Serial.println("h")
serialEvent1_end_print ==
    /\ pc = "end"
    /\ \E d \in 0 .. MaxHandlerMs :
          /\ now' = now + d
          /\ busy' = busy + d
    /\ sink' = sink \o EndMarker
    /\ stop' = Len(sink) + Len(EndMarker)
    /\ frames' = Append(frames, cur)
    /\ pc' = "loop"
    /\ UNCHANGED <<rxfifo, led, pin, arrived, cur, snap, start, late, calls,
                   ticks, lastGap, lastBusy>>

\* Serial.println("h"); and serialEvent1 returns.  The time the invocation
\* took is accounted here: the clock is read only when a heartbeat is
\* written, and none is written while the handler runs.
serialEvent1_end ==
    /\ pc = "end"
    /\ \E d \in 0 .. MaxHandlerMs :
          /\ now' = now + d
          /\ busy' = busy + d
    /\ sink' = sink \o EndMarker \o LineTerminator
    /\ stop' = Len(sink) + Len(EndMarker) + Len(LineTerminator)
    /\ frames' = Append(frames, cur)
    /\ pc' = "loop"
    /\ UNCHANGED <<rxfifo, led, pin, arrived, cur, snap, start, late, calls,
                   ticks, lastGap, lastBusy>>

-----------------------------------------------------------------------------
(* The sketch *)

Next ==
    \/ Arrive
    \/ loop_toggle
    \/ loop_delay
    \/ loop_print
    \/ serialEvent1_run
    \/ serialEvent1_skip
    \/ serialEvent1_while
    \/ serialEvent1_body
    \/ serialEvent1_end

Spec == Init /\ [][Next]_vars

-----------------------------------------------------------------------------
(* serialEvent1 called on a prepared receive buffer *)

\* buffers the handler is called on: empty, one byte of any value, or two or
\* three sample bytes
CallBuffers ==
    {<<>>} \cup {<<b>> : b \in AllBytes}
           \cup {<<a, b>> : a \in SampleBytes, b \in SampleBytes}

InitCall ==
    /\ InitCommon
    /\ rxfifo \in CallBuffers
    /\ arrived = rxfifo
    /\ pc = "call"

\* a direct call of serialEvent1(), whatever the buffer holds
serialEvent1_call ==
    /\ pc = "call"
    /\ serialEvent1_enter

NextCall ==
    \/ Arrive
    \/ serialEvent1_call
    \/ serialEvent1_while
    \/ serialEvent1_body
    \/ serialEvent1_end

SpecCall == InitCall /\ [][NextCall]_vars

-----------------------------------------------------------------------------
(* The sketch running forever *)

(* The same steps as above for runs of unbounded length: the bus may deliver *)
(* bytes for ever, loop() is called for ever.  To keep the state finite the  *)
(* Serial1 buffer has a capacity (a byte arriving at a full buffer is lost), *)
(* sink holds only the last write to Serial, and of the history only late is *)
(* kept.                                                                     *)

frozen == <<now, arrived, frames, cur, snap, start, stop, calls, ticks, busy,
            lastGap, lastBusy>>

\* the UART receives one byte while the buffer has room
ArriveLive ==
    /\ Len(rxfifo) < MaxFifo
    /\ \E b \in SampleBytes : rxfifo' = Append(rxfifo, b)
    /\ late' = (late \/ InHandler)
    /\ UNCHANGED <<sink, led, pin, pc, frozen>>

\* digitalWrite(LED_BUILTIN, led = !led);
loop_toggle_live ==
    /\ pc = "loop"
    /\ led' = ~led
    /\ pin' = ~led
    /\ pc' = "delay"
    /\ UNCHANGED <<rxfifo, sink, late, frozen>>

\* delay(500);
loop_delay_live ==
    /\ pc = "delay"
    /\ pc' = "print"
    /\ UNCHANGED <<rxfifo, sink, led, pin, late, frozen>>

\* defect: the heartbeat write is left out
loop_print_live_silent ==
    /\ pc = "print"
    /\ pc' = "event"
    /\ UNCHANGED <<rxfifo, sink, led, pin, late, frozen>>

\* Serial.print("\r"); and loop() returns
loop_print_live ==
    /\ pc = "print"
    /\ sink' = Heartbeat
    /\ pc' = "event"
    /\ UNCHANGED <<rxfifo, led, pin, late, frozen>>

\* serialEvent1 is called when Serial1 has data: Serial.print("rx");
serialEvent1_run_live ==
    /\ pc = "event"
    /\ Available > 0
    /\ sink' = StartMarker
    /\ late' = FALSE
    /\ pc' = "while"
    /\ UNCHANGED <<rxfifo, led, pin, frozen>>

\* Serial.printf(" %02X", Serial1.read());
serialEvent1_body_live ==
    /\ pc = "body"
    /\ sink' = DataToken(ReadValue(rxfifo))
    /\ rxfifo' = ReadRest(rxfifo)
    /\ pc' = "while"
    /\ UNCHANGED <<led, pin, late, frozen>>

\* Serial.println("h"); and serialEvent1 returns
serialEvent1_end_live ==
    /\ pc = "end"
    /\ sink' = EndMarker \o LineTerminator
    /\ pc' = "loop"
    /\ UNCHANGED <<rxfifo, led, pin, late, frozen>>

\* the steps of the processor: exactly one is enabled in every state
CpuLive ==
    \/ loop_toggle_live
    \/ loop_delay_live
    \/ loop_print_live
    \/ serialEvent1_run_live
    \/ serialEvent1_skip
    \/ serialEvent1_while
    \/ serialEvent1_body_live
    \/ serialEvent1_end_live

NextLive ==
    \/ ArriveLive
    \/ loop_toggle_live
    \/ loop_delay_live
    \/ loop_print_live
    \/ serialEvent1_run_live
    \/ serialEvent1_skip
    \/ serialEvent1_while
    \/ serialEvent1_body_live
    \/ serialEvent1_end_live

\* the processor never stops executing; nothing is assumed about the bus
SpecLive == Init /\ [][NextLive]_vars /\ WF_vars(CpuLive)

-----------------------------------------------------------------------------
(* The host side: what a reader of the sink expects and recovers *)

\* "0123456789ABCDEF"
HexTable == <<48, 49, 50, 51, 52, 53, 54, 55, 56, 57, 65, 66, 67, 68, 69, 70>>

HexChars == {HexTable[i] : i \in 1 .. 16}

\* the two characters a byte is expected to be shown as
TwoHex(b) == <<HexTable[(b \div 16) + 1], HexTable[(b % 16) + 1]>>

\* value of a character of HexChars
HexValue(c) == IF c <= 57 THEN c - 48 ELSE c - 55

RECURSIVE ExpectedTokens(_)
ExpectedTokens(B) ==
    IF B = <<>> THEN <<>>
    ELSE <<32>> \o TwoHex(Head(B)) \o ExpectedTokens(Tail(B))

\* the line "rx b1 b2 ... bnh" and its terminator
ExpectedFrame(B) == <<114, 120>> \o ExpectedTokens(B) \o <<104, 13, 10>>

IsPrefix(a, b) == Len(a) <= Len(b) /\ SubSeq(b, 1, Len(a)) = a

RECURSIVE Flatten(_)
Flatten(ss) == IF ss = <<>> THEN <<>> ELSE Head(ss) \o Flatten(Tail(ss))

RECURSIVE Scan(_, _, _, _, _)
\* A reader of the character stream s from position i on.  Outside a frame it
\* skips heartbeats and waits for "rx"; inside a frame it collects " HH"
\* tokens, skips heartbeats, and closes the frame at "h" + line terminator.
\* done: the frames closed so far; open/bytes: the frame being read.
Scan(s, i, open, bytes, done) ==
    LET result(ok) ==
            [frames |-> done, open |-> open, bytes |-> bytes, ok |-> ok]
        has(k) == i + k <= Len(s)
    IN  IF i > Len(s) THEN result(TRUE)
        ELSE IF s[i] = 13 THEN Scan(s, i + 1, open, bytes, done)
        ELSE IF ~open
        THEN IF has(1) /\ s[i] = 114 /\ s[i + 1] = 120
             THEN Scan(s, i + 2, TRUE, <<>>, done)
             ELSE result(FALSE)
        ELSE IF has(2) /\ s[i] = 32
                /\ s[i + 1] \in HexChars /\ s[i + 2] \in HexChars
             THEN Scan(s, i + 3, TRUE,
                       Append(bytes, 16 * HexValue(s[i + 1]) + HexValue(s[i + 2])),
                       done)
        ELSE IF has(2) /\ s[i] = 104 /\ s[i + 1] = 13 /\ s[i + 2] = 10
             THEN Scan(s, i + 3, FALSE, <<>>, Append(done, bytes))
             ELSE result(FALSE)

Decode(s) == Scan(s, 1, FALSE, <<>>, <<>>)

\* every data byte shown on s, complete frames first, then the open frame
DataBytes(s) == Flatten(Decode(s).frames) \o Decode(s).bytes

\* what the last completed invocation of serialEvent1 wrote
Written == SubSeq(sink, start + 1, stop)

\* the last invocation that was started has returned
Returned == calls >= 1 /\ Len(frames) = calls

\* position i of s lies after an "rx" that no "h" has closed yet
FrameOpenBefore(s, i) ==
    \E j \in 1 .. (i - 2) :
        /\ s[j] = 114
        /\ s[j + 1] = 120
        /\ \A k \in (j + 2) .. (i - 1) : s[k] # 104

\* loop() calls started so far
TicksStarted == IF pc \in {"delay", "print"} THEN ticks + 1 ELSE ticks

-----------------------------------------------------------------------------
(* Claims *)

\* C1: no heartbeat character (a carriage return not preceded by the end
\* marker "h") appears on the sink between a frame's start marker "rx" and
\* its end marker "h", whatever the interleaving of arrivals, handler
\* invocations and ticks.
C1_NoHeartbeatInsideFrame ==
    \A i \in 1 .. Len(sink) :
        sink[i] = 13 => ~FrameOpenBefore(sink, i)

\* a frame with data lies on the sink between two heartbeats, and bytes
\* arrived while it was being written
C1_Witness ==
    /\ ticks >= 2
    /\ Returned
    /\ cur # <<>>
    /\ late
    /\ sink[Len(sink)] = 13

\* C2: an invocation that starts with B in the receive buffer and sees no
\* further arrival writes exactly "rx", " HH" for every byte of B in order,
\* "h" and the line terminator.
C2_FrameIsExact ==
    (Returned /\ ~late) => Written = ExpectedFrame(snap)

\* the burst 0x12, 0xAB, 0x00 was relayed as "rx 12 AB 00h"
C2_Witness ==
    /\ Returned
    /\ ~late
    /\ snap = <<18, 171, 0>>
    /\ Written = <<114, 120, 32, 49, 50, 32, 65, 66, 32, 48, 48, 104, 13, 10>>

\* C3 as stated: the interval between two consecutive heartbeats never
\* exceeds the quantum.
C3_GapWithinQuantum ==
    ticks >= 2 => lastGap <= Quantum

\* C3 amended: the interval between two consecutive heartbeats is never less
\* than the quantum; it is the quantum plus the time spent in serialEvent1
\* between the two heartbeats.
C3_GapIsQuantumPlusCapture ==
    ticks >= 1 => (lastGap >= Quantum /\ lastGap = Quantum + lastBusy)

\* two heartbeats with a handler invocation that took time between them
C3_Witness ==
    /\ ticks >= 2
    /\ lastBusy > 0
    /\ lastGap > Quantum

\* C4: every byte that was in the receive buffer when an invocation started
\* is shown in the frame that invocation wrote, in order and first; while the
\* invocation runs the bytes not yet shown are still in the buffer.
C4_DrainsAllAvailable ==
    /\ InHandler => IsPrefix(snap, cur \o rxfifo)
    /\ Returned =>
          /\ Decode(Written).ok
          /\ Len(Decode(Written).frames) = 1
          /\ IsPrefix(snap, Decode(Written).frames[1])

\* an invocation triggered once for several coalesced arrivals has returned
C4_Witness ==
    /\ Returned
    /\ Len(snap) >= 2
    /\ Decode(Written).frames = <<snap>>

\* C5: the data bytes shown on the sink, in order over all frames, followed
\* by the bytes still in the receive buffer, are the bytes that arrived, in
\* arrival order: each byte is shown once, in one frame, in order.
C5_BytesOnceInOrder ==
    /\ Decode(sink).ok
    /\ DataBytes(sink) \o rxfifo = arrived
    /\ Len(DataBytes(sink)) = Len(Flatten(frames)) + (IF InHandler THEN Len(cur) ELSE 0)

\* two frames with data were written and a byte is still waiting
C5_Witness ==
    /\ Len(frames) = 2
    /\ frames[1] # <<>>
    /\ frames[2] # <<>>
    /\ rxfifo # <<>>

\* C6: an invocation that finds nothing available writes exactly "rxh" and
\* the line terminator, reads nothing and returns.
C6_EmptyFrame ==
    (Returned /\ snap = <<>> /\ ~late) =>
        /\ Written = <<114, 120, 104, 13, 10>>
        /\ cur = <<>>

\* serialEvent1 was called on an empty buffer and has returned
C6_Witness ==
    /\ Returned
    /\ snap = <<>>
    /\ ~late
    /\ arrived = <<>>

\* C7: after every read, the token just written is a space and the two
\* upper-case hexadecimal digits of the byte read, zero padded; every token
\* written so far is three characters long.
C7_TwoHexDigits ==
    (pc = "while" /\ cur # <<>>) =>
        LET v == cur[Len(cur)]
        IN  /\ v \in 0 .. 255
            /\ Len(sink) = start + 2 + 3 * Len(cur)
            /\ SubSeq(sink, Len(sink) - 2, Len(sink)) = <<32>> \o TwoHex(v)
            /\ 16 * HexValue(sink[Len(sink) - 1]) + HexValue(sink[Len(sink)]) = v

\* 0x0A was read and shown as " 0A"
C7_Witness ==
    /\ pc = "while"
    /\ cur = <<10>>
    /\ SubSeq(sink, Len(sink) - 2, Len(sink)) = <<32, 48, 65>>

\* C8: a reader that splits the sink at "rx" and "h" + line terminator and
\* ignores heartbeats recovers the byte lists of the completed invocations,
\* frame by frame, and the bytes of the invocation in progress.
C8_DecodeRoundTrip ==
    /\ Decode(sink).ok
    /\ Decode(sink).frames = frames
    /\ Decode(sink).open = InHandler
    /\ InHandler => Decode(sink).bytes = cur

\* heartbeats and two frames, the first with data, are on the sink
C8_Witness ==
    /\ ticks >= 2
    /\ Len(frames) = 2
    /\ Len(frames[1]) >= 2
    /\ Decode(sink).frames = frames

\* C9: led is inverted once per tick and written to the indicator: it is on
\* iff an odd number of ticks has started, also while serialEvent1 runs and
\* after it returned.
C9_LedParity ==
    /\ led = (TicksStarted % 2 = 1)
    /\ pin = led

\* serialEvent1 runs after three ticks: the indicator is still on
C9_Witness ==
    /\ InHandler
    /\ ticks = 3
    /\ led
    /\ pin

\* C10: as long as the bus has delivered nothing, the sink holds one
\* heartbeat per completed tick and nothing else, and serialEvent1 was never
\* called.
C10_IdleBusOnlyHeartbeats ==
    arrived = <<>> =>
        /\ sink = [i \in 1 .. ticks |-> 13]
        /\ calls = 0

\* several ticks have completed on an idle bus
C10_Witness ==
    /\ arrived = <<>>
    /\ ticks >= 2
    /\ Len(sink) = ticks

\* C11 as stated: every invocation of serialEvent1 returns, whatever the bus
\* delivers and whenever.
C11_HandlerAlwaysReturns ==
    InHandler ~> ~InHandler

\* C11 amended: every invocation of serialEvent1 returns unless bytes keep
\* arriving during its drain loop for ever; it never waits for a byte.
C11_HandlerReturnsUnlessFed ==
    \/ []<><<ArriveLive /\ InHandler>>_vars
    \/ (InHandler ~> ~InHandler)

\* an invocation during which a byte arrived has written its end marker and
\* returned
C11_Witness ==
    /\ pc = "loop"
    /\ late
    /\ sink = <<104, 13, 10>>

\* C12 as stated: a frame never shows more bytes than were in the receive
\* buffer when its invocation started.
C12_FrameWithinInitial ==
    Returned =>
        /\ Len(Decode(Written).frames) = 1
        /\ Len(Decode(Written).frames[1]) <= Len(snap)

\* C12 amended: a frame never shows more bytes than were in the receive
\* buffer when its invocation started plus those that arrived while it was
\* draining; with no such arrival it shows exactly the bytes of the start.
C12_FrameWithinArrived ==
    /\ InHandler =>
          /\ Decode(sink).open
          /\ Len(Decode(sink).bytes) <= Len(arrived) - Len(Flatten(frames))
          /\ ~late => Len(Decode(sink).bytes) <= Len(snap)
    /\ Returned =>
          /\ Len(Decode(Written).frames) = 1
          /\ Len(snap) <= Len(Decode(Written).frames[1])
          /\ ~late => Len(Decode(Written).frames[1]) = Len(snap)

\* a frame longer than the buffer was at the start of its invocation
C12_Witness ==
    /\ Returned
    /\ late
    /\ Len(Decode(Written).frames) = 1
    /\ Len(Decode(Written).frames[1]) > Len(snap)

\* C13 as stated: whatever the bus delivers, another heartbeat is always
\* eventually written.
C13_HeartbeatsForEver ==
    []<>(pc = "event" /\ sink = <<13>>)

\* C13 amended: loop() never terminates, and another heartbeat is always
\* eventually written unless an invocation of serialEvent1 never returns.
C13_HeartbeatsUnlessCaptureStays ==
    \/ <>[]InHandler
    \/ []<>(pc = "event" /\ sink = <<13>>)

\* a heartbeat was written after an invocation of serialEvent1 during which
\* a byte arrived, and the next invocation is due
C13_Witness ==
    /\ pc = "event"
    /\ sink = <<13>>
    /\ late
    /\ rxfifo # <<>>

\* positions of s where a start marker "rx" begins
StartsOf(s) == {i \in 1 .. (Len(s) - 1) : s[i] = 114 /\ s[i + 1] = 120}

\* C14: at most one invocation of serialEvent1 is active: every invocation
\* started has returned except the running one, no "rx" is written while a
\* frame is open, and bytes arriving during the drain join the open frame.
C14_OneInvocationAtATime ==
    /\ calls = Len(frames) + (IF InHandler THEN 1 ELSE 0)
    /\ Cardinality(StartsOf(sink)) = calls
    /\ \A i \in StartsOf(sink) : ~FrameOpenBefore(sink, i)
    /\ InHandler =>
          Flatten(frames) \o Decode(sink).bytes \o rxfifo = arrived

\* a byte that arrived during the drain was read by the running invocation,
\* the second one started
C14_Witness ==
    /\ InHandler
    /\ calls = 2
    /\ late
    /\ Len(cur) > Len(snap)
    /\ Cardinality(StartsOf(sink)) = 2

\* positions of s holding a heartbeat: a carriage return that is not the
\* first character of a line terminator
HeartbeatsOf(s) ==
    {i \in 1 .. Len(s) : s[i] = 13 /\ (i = Len(s) \/ s[i + 1] # 10)}

\* C15: every tick inverts the indicator once, then pauses for the quantum,
\* then writes one carriage return, in this order and whatever the bus did:
\* the sink holds one heartbeat per completed tick, the indicator changes
\* only at the start of a tick, and the heartbeat is the only write of a tick.
C15_TickOrder ==
    /\ [](/\ Cardinality(HeartbeatsOf(sink)) = ticks
          /\ pc = "delay" => (led = (ticks % 2 = 0) /\ now = busy)
          /\ pc = "print" => (led = (ticks % 2 = 0) /\ now = busy + Quantum))
    /\ [][/\ led' # led => (pc = "loop" /\ pc' = "delay" /\ pin' = led')
          /\ pc' = "delay" => (pc \in {"loop", "delay"} /\ (pc = "loop" => led' # led))
          /\ pc' = "print" => pc \in {"delay", "print"}
          /\ ticks' # ticks =>
                /\ pc = "print"
                /\ ticks' = ticks + 1
                /\ sink' = sink \o <<13>>
                /\ led' = led
          /\ (pc \in {"loop", "delay"} /\ pc' # pc) => sink' = sink]_vars

\* two ticks completed with a frame written between their heartbeats
C15_Witness ==
    /\ ticks = 2
    /\ Len(frames) = 1
    /\ cur # <<>>
    /\ Cardinality(HeartbeatsOf(sink)) = 2
    /\ sink[Len(sink)] = 13
    /\ ~led

\* C16: Serial1.read() is only executed with at least one byte available:
\* it never returns -1, and no token wider than two digits is on the sink.
C16_NeverReadsEmpty ==
    /\ pc = "body" => Available > 0
    /\ \A i \in 1 .. Len(cur) : cur[i] # -1 /\ cur[i] \in AllBytes
    /\ Decode(sink).ok
    /\ \A i \in 1 .. (Len(sink) - 3) :
          ~(sink[i] = 32 /\ sink[i + 3] \in HexChars)

\* the last available byte was read: the buffer is empty at the next check
C16_Witness ==
    /\ pc = "while"
    /\ Len(cur) = 2
    /\ rxfifo = <<>>
    /\ Decode(sink).bytes = cur

\* C17: the end marker is written only after the availability check found
\* the receive buffer empty, and at that check every byte that had arrived
\* is on the sink, those not shown by earlier frames in this frame; the
\* frame closed is the one that was open at the check.
C17_EndAfterEmptyCheck ==
    [][/\ (pc' = "end" /\ pc # "end") =>
             /\ pc = "while"
             /\ rxfifo = <<>>
             /\ Decode(sink).open
             /\ Flatten(frames) \o Decode(sink).bytes = arrived
       /\ (pc = "end" /\ pc' # "end") =>
             /\ sink' = sink \o <<104, 13, 10>>
             /\ Decode(sink').frames = Append(frames, Decode(sink).bytes)
             /\ IsPrefix(Flatten(Decode(sink').frames), arrived)
             /\ rxfifo = SubSeq(arrived, Len(Flatten(Decode(sink').frames)) + 1,
                                Len(arrived))
       /\ (Len(sink') > Len(sink) /\ sink'[Len(sink')] = 10) => pc = "end"]_vars

\* the check found the buffer empty after a byte had arrived during the
\* drain and had been read
C17_Witness ==
    /\ pc = "end"
    /\ late
    /\ rxfifo = <<>>
    /\ Len(cur) > Len(snap)
    /\ Flatten(frames) \o Decode(sink).bytes = arrived

RECURSIVE Grammar(_, _, _)
\* s from position i on is a sequence of heartbeats and complete frames
\* "rx" (" " H H)* "h" CR LF, possibly followed by the prefix "rx" (" " H H)*
\* of one more frame; open tells whether position i lies inside a frame
Grammar(s, i, open) ==
    LET has(k) == i + k <= Len(s)
    IN  IF i > Len(s) THEN [ok |-> TRUE, open |-> open]
        ELSE IF ~open
        THEN IF s[i] = 13 THEN Grammar(s, i + 1, FALSE)
             ELSE IF has(1) /\ s[i] = 114 /\ s[i + 1] = 120
             THEN Grammar(s, i + 2, TRUE)
             ELSE [ok |-> FALSE, open |-> open]
        ELSE IF has(2) /\ s[i] = 32
                /\ s[i + 1] \in HexChars /\ s[i + 2] \in HexChars
             THEN Grammar(s, i + 3, TRUE)
        ELSE IF has(2) /\ s[i] = 104 /\ s[i + 1] = 13 /\ s[i + 2] = 10
             THEN Grammar(s, i + 3, FALSE)
             ELSE [ok |-> FALSE, open |-> open]

\* C18: the sink always holds complete heartbeats and complete frames
\* followed by at most one frame prefix, which is there iff serialEvent1 is
\* running; what an invocation writes depends only on the bytes it reads;
\* serialEvent1 leaves the state of loop() alone and loop() leaves the
\* receive buffer and the state of serialEvent1 alone.
C18_SinkWellFormed ==
    /\ [](/\ Grammar(sink, 1, FALSE).ok
          /\ Grammar(sink, 1, FALSE).open = InHandler
          /\ InHandler =>
                SubSeq(sink, start + 1, Len(sink))
                    = <<114, 120>> \o ExpectedTokens(cur)
          /\ Returned => Written = ExpectedFrame(cur))
    /\ [][/\ (calls' # calls \/ (InHandler /\ pc' # pc)) =>
                /\ led' = led
                /\ pin' = pin
                /\ ticks' = ticks
          /\ (pc \in {"loop", "delay", "print"} /\ pc' # pc) =>
                /\ rxfifo' = rxfifo
                /\ cur' = cur
                /\ frames' = frames]_vars

\* heartbeats, two complete frames and a frame prefix are on the sink, the
\* second frame written by an invocation that followed another one
C18_Witness ==
    /\ InHandler
    /\ ticks >= 2
    /\ Len(frames) = 2
    /\ frames[1] # <<>>
    /\ cur # <<>>
    /\ Grammar(sink, 1, FALSE).open

=============================================================================
